---- MODULE Spec2Model ----
(***************************************************************************)
(* Material IO of Baikal (BaikalIO/material_io.cpp): the dependency        *)
(* collector of SaveMaterialsFromScene, the XML writer and reader of       *)
(* MaterialIoXML, and the material mapping utilities.                      *)
(***************************************************************************)
EXTENDS Integers, Sequences, FiniteSets, TLC

----------------------------------------------------------------------------
(* Bounds of the model *)

\* number of material objects in the scene given to the collector
NumMats == 3
\* largest number of material-to-material references in that scene
MaxEdges == 3
\* largest size the collector's std::stack may reach in the model
MaxStack == 4

----------------------------------------------------------------------------
(* The scene seen by the collector *)

\* material objects of the scene
Mats == 1..NumMats
\* a shape without a material (GetMaterial() returns nullptr)
NoMat == 0
\* the scene's shapes, in the order of the shape iterator
ShapeSeq == <<"s1", "s2">>

VARIABLES
    \* --- scene (input of SaveMaterialsFromScene)
    deps,            \* deps[m]: the materials m->CreateMaterialIterator() enumerates
    shapeMat,        \* shapeMat[i]: the material of the i-th shape, or NoMat
    \* --- collector
    cpc,             \* "next" | "drain" | "collected" | "idle"
    shapeIdx,        \* index of the shape the Collector hands to the lambda
    material_stack,  \* the lambda's std::stack (top is the last element)
    mats,            \* the lambda's resulting set
    collected,       \* the Collector's set: what CreateIterator() enumerates
    \* --- reader (MaterialIoXML::LoadMaterials)
    ldoc,            \* the Material elements consumed so far, with their Input children
    lpc,             \* "idle" | "records" | "inputs" | "resolve" | "done" | "failed"
    lerror,          \* what ended the call when lpc = "failed"
    nodes,           \* the materials created by this call, in creation order
    materials,       \* the local std::set<Material::Ptr> (indices into nodes)
    m_id2mat,        \* member: id -> node
    m_name2tex,      \* member: string -> texture
    m_resolve_requests, \* member: std::set<ResolveRequest>
    resolved,        \* the requests the fix-up loop has gone through
    imageLoads,      \* the calls of ImageIo::LoadImage so far (file names, in order)
    \* --- writer (MaterialIoXML::SaveMaterials)
    wnodes,          \* the materials the iterator has yielded so far
    wdoc,            \* the Material elements printed so far
    wpc,             \* "idle" | "iter" | "done" | "aborted"
    m_tex2name,      \* member: texture -> name
    imageSaves,      \* the calls of ImageIo::SaveImage so far
    \* --- mapping (MaterialIo::LoadMaterialMapping)
    mapDoc,          \* the Mapping elements consumed so far: <<from, to>>
    map,             \* the local MaterialMap
    mpc,             \* "idle" | "records" | "done"
    \* --- scene materials
    matName,         \* matName[m]: Material::GetName() of the scene's material m
    matInputs,       \* matInputs[m]: the input values of the scene's material m
    \* --- MaterialIo::ReplaceSceneMaterials
    iterNames,       \* the names of the materials the iterator yields, in order
    name2mat,        \* the local name -> material (index into iterNames)
    rebound,         \* rebound[i]: the loaded material set on shape i, or NoMat
    rpc,             \* "idle" | "index" | "shapes" | "done"
    rIdx,            \* position of the iterator / of the shape iterator
    \* --- MaterialIo::SaveIdentityMapping
    identDoc,        \* the Mapping elements printed so far: <<from, to>>
    serialized_mats, \* the local std::set<Material::Ptr>
    ipc,             \* "idle" | "shapes" | "done"
    iIdx,            \* position of the shape iterator
    \* --- file access and call history
    ioLoad,          \* what doc.LoadFile returned in the latest LoadMaterials call
    ioSave,          \* what doc.SaveFile returned in the latest SaveMaterials call
    entryLeft        \* the members that held entries when the latest call was entered

collVars == <<deps, shapeMat, cpc, shapeIdx, material_stack, mats, collected>>

loadVars == <<ldoc, lpc, lerror, nodes, materials, m_id2mat, m_name2tex,
              m_resolve_requests, resolved, imageLoads>>

saveVars == <<wnodes, wdoc, wpc, m_tex2name, imageSaves>>

mapVars == <<mapDoc, map, mpc>>

sceneVars == <<matName, matInputs>>

replVars == <<iterNames, name2mat, rebound, rpc, rIdx>>

identVars == <<identDoc, serialized_mats, ipc, iIdx>>

ioVars == <<ioLoad, ioSave, entryLeft>>

extVars == <<sceneVars, replVars, identVars>>

vars == <<collVars, loadVars, saveVars, mapVars, extVars, ioVars>>

----------------------------------------------------------------------------
(* Helpers *)

Min(S) == CHOOSE x \in S : \A y \in S : x <= y

\* the elements of a set of integers in ascending order (iteration of a std::set/map)
RECURSIVE SeqOfSet(_)
SeqOfSet(S) == IF S = {} THEN <<>> ELSE <<Min(S)>> \o SeqOfSet(S \ {Min(S)})

RECURSIVE SumOver(_, _)
SumOver(f, S) == IF S = {} THEN 0
                 ELSE LET x == CHOOSE y \in S : TRUE IN f[x] + SumOver(f, S \ {x})

EdgeCount(d) == SumOver([m \in DOMAIN d |-> Cardinality(d[m])], DOMAIN d)

\* materials reachable from the set S through zero or more references
RECURSIVE ReachFrom(_, _)
ReachFrom(d, S) ==
    LET T == S \cup UNION {d[m] : m \in S}
    IN IF T = S THEN S ELSE ReachFrom(d, T)

Acyclic(d) == \A m \in DOMAIN d : m \notin ReachFrom(d, d[m])

\* a std::map with no entries
EmptyMap == [k \in {} |-> 0]

MapPut(f, k, v) == [x \in DOMAIN f \cup {k} |-> IF x = k THEN v ELSE f[x]]

----------------------------------------------------------------------------
(* States in which a component is not in use *)

LoadIdle ==
    /\ ldoc = <<>>
    /\ lpc = "idle"
    /\ lerror = "none"
    /\ nodes = <<>>
    /\ materials = {}
    /\ m_id2mat = EmptyMap
    /\ m_name2tex = EmptyMap
    /\ m_resolve_requests = {}
    /\ resolved = {}
    /\ imageLoads = <<>>

SaveIdle ==
    /\ wnodes = <<>>
    /\ wdoc = <<>>
    /\ wpc = "idle"
    /\ m_tex2name = EmptyMap
    /\ imageSaves = <<>>

MapIdle ==
    /\ mapDoc = <<>>
    /\ map = EmptyMap
    /\ mpc = "idle"

SceneIdle ==
    /\ matName = [m \in Mats |-> "m"]
    /\ matInputs = [m \in Mats |-> <<>>]

ReplaceIdle ==
    /\ iterNames = <<>>
    /\ name2mat = EmptyMap
    /\ rebound = [i \in 1..Len(ShapeSeq) |-> NoMat]
    /\ rpc = "idle"
    /\ rIdx = 1

IdentityIdle ==
    /\ identDoc = <<>>
    /\ serialized_mats = {}
    /\ ipc = "idle"
    /\ iIdx = 1

IoIdle ==
    /\ ioLoad = "none"
    /\ ioSave = "none"
    /\ entryLeft = {}

ExtIdle == SceneIdle /\ ReplaceIdle /\ IdentityIdle /\ IoIdle

----------------------------------------------------------------------------
(* Dependency collector: MaterialIo::SaveMaterialsFromScene *)

InitCollect ==
    /\ deps \in {d \in [Mats -> SUBSET Mats] : EdgeCount(d) <= MaxEdges}
    /\ shapeMat \in [1..Len(ShapeSeq) -> Mats \cup {NoMat}]
    /\ cpc = "next"
    /\ shapeIdx = 1
    /\ material_stack = <<>>
    /\ mats = {}
    /\ collected = {}
    /\ LoadIdle
    /\ SaveIdle
    /\ MapIdle
    /\ ExtIdle

\* a loop that stops after the first dependency
PushDependenciesFirstOnly(stack, m) ==
    IF deps[m] = {} THEN stack ELSE Append(stack, Min(deps[m]))

\* for (; mat_iter->IsValid(); mat_iter->Next()) material_stack.push(...)
PushDependencies(stack, m) == stack \o SeqOfSet(deps[m])

\* The collector lambda is entered for the next shape: the stack is seeded
\* with the shape's material when it has one.
CollectItem ==
    /\ cpc = "next"
    /\ mats' = {}
    /\ material_stack' = IF shapeMat[shapeIdx] # NoMat
                         THEN <<shapeMat[shapeIdx]>> ELSE <<>>
    /\ cpc' = "drain"
    /\ UNCHANGED <<deps, shapeMat, shapeIdx, collected>>
    /\ UNCHANGED <<loadVars, saveVars, mapVars, extVars, ioVars>>

\* One iteration of "while (!material_stack.empty())": pop, emplace, push
\* every dependency. The code keeps no record of materials already expanded.
DrainStep ==
    /\ cpc = "drain"
    /\ material_stack # <<>>
    /\ LET m == material_stack[Len(material_stack)]
           popped == SubSeq(material_stack, 1, Len(material_stack) - 1)
       IN /\ Len(PushDependencies(popped, m)) <= MaxStack
          /\ material_stack' = PushDependencies(popped, m)
          /\ mats' = mats \cup {m}
    /\ UNCHANGED <<deps, shapeMat, cpc, shapeIdx, collected>>
    /\ UNCHANGED <<loadVars, saveVars, mapVars, extVars, ioVars>>

\* what Collector::Collect does with the set the lambda returns
CollectorInsert(set, returned) == set \cup returned

\* The lambda returns its set; the Collector keeps it and moves to the next shape.
ReturnMats ==
    /\ cpc = "drain"
    /\ material_stack = <<>>
    /\ collected' = CollectorInsert(collected, mats)
    /\ shapeIdx' = shapeIdx + 1
    /\ cpc' = IF shapeIdx + 1 > Len(ShapeSeq) THEN "collected" ELSE "next"
    /\ UNCHANGED <<deps, shapeMat, material_stack, mats>>
    /\ UNCHANGED <<loadVars, saveVars, mapVars, extVars, ioVars>>

NextCollect == CollectItem \/ DrainStep \/ ReturnMats

\* The lambda is sequential code: a loop iteration that can run does run.
SpecCollect == InitCollect /\ [][NextCollect]_vars /\ WF_vars(NextCollect)

----------------------------------------------------------------------------
(* Claims about the collector *)

ShapeMaterials == {shapeMat[i] : i \in 1..Len(ShapeSeq)} \ {NoMat}

\* C1: on the cyclic graph A -> B -> A with a shape whose material is A, the
\* stack-draining loop eventually empties the stack with the result {A, B}.
C1_CycleTerminates ==
    \A a \in Mats, b \in Mats :
        (/\ a # b /\ deps[a] = {b} /\ deps[b] = {a}
         /\ cpc = "drain" /\ material_stack = <<a>> /\ mats = {})
        ~> (cpc = "drain" /\ material_stack = <<>> /\ mats = {a, b})

\* C2: over an acyclic material graph the node set handed to the Writer is
\* exactly the set of materials reachable from some shape's material.
C2_CollectedIsReachable ==
    (cpc = "collected" /\ Acyclic(deps))
        => collected = ReachFrom(deps, ShapeMaterials)

C2_Witness ==
    /\ cpc = "collected"
    /\ Acyclic(deps)
    /\ \E i \in 1..Len(ShapeSeq) : shapeMat[i] = NoMat
    /\ Cardinality(ShapeMaterials) = 1
    /\ Cardinality(collected) = 2
    /\ Mats \ collected # {}

----------------------------------------------------------------------------
(* The document: Material elements with Input children *)

\* XMLElement::Attribute() of an attribute the element does not have (nullptr)
NoAttr == "<null>"
\* a null Material::Ptr / Texture::Ptr
NoNode == 0
NoTex == 0

Zero4 == <<0, 0, 0, 0>>

\* Material::InputValue { type, float_value, tex_value, mat_value }
FloatValue(v)    == [type |-> "float4",   float_value |-> v,     tex_value |-> NoTex, mat_value |-> NoNode]
TextureValue(t)  == [type |-> "texture",  float_value |-> Zero4, tex_value |-> t,     mat_value |-> NoNode]
MaterialValue(m) == [type |-> "material", float_value |-> Zero4, tex_value |-> NoTex, mat_value |-> m]

\* an Input element: name, type and the value attribute, which is read as four
\* numbers (fval), as a resource name (sval) or as a decimal id (ival)
FloatInput(name, v)    == [name |-> name, type |-> "float4",   fval |-> v,     sval |-> "", ival |-> 0]
TextureInput(name, f)  == [name |-> name, type |-> "texture",  fval |-> Zero4, sval |-> f,  ival |-> 0]
MaterialInput(name, i) == [name |-> name, type |-> "material", fval |-> Zero4, sval |-> "", ival |-> i]
OtherInput(name, t)    == [name |-> name, type |-> t,          fval |-> Zero4, sval |-> "", ival |-> 0]

\* a Material element without its children
MaterialElement(name, id, thin, type, bxdf, blend_type) ==
    [name |-> name, id |-> id, thin |-> thin, type |-> type, bxdf |-> bxdf,
     blend_type |-> blend_type, inputs |-> <<>>]

TotalInputs(doc) ==
    SumOver([i \in 1..Len(doc) |-> Len(doc[i].inputs)], 1..Len(doc))

----------------------------------------------------------------------------
(* Reader: MaterialIoXML::LoadMaterials, LoadMaterial, LoadInput *)

\* largest number of Material elements of a document read
MaxRecords == 2
\* largest number of Input elements of a document read
MaxInputs == 2

\* Material::SetInputValue(name, value) on node n
SetInputValue(ns, n, name, value) ==
    [ns EXCEPT ![n].inputs = MapPut(@, name, value)]

\* iss >> value.x >> value.y >> value.z >> value.w: fval holds the four
\* numbers the attribute's text denotes, and operator>> reads them back
ParseFloat4(v) == <<v[1], v[2], v[3], v[4]>>

\* std::set<ResolveRequest>::emplace: operator< compares the id alone, so a
\* request is equivalent to any request already in the set with the same id
EmplaceRequest(set, req) ==
    IF \E r \in set : r.id = req.id THEN set ELSE set \cup {req}

\* the node the texture cache is updated with after io.LoadImage (line 252)
RememberTexture(cache, name, filename, texture) == MapPut(cache, name, texture)

\* the node being loaded: the last one created
cur == Len(nodes)

\* the members of the reader that hold entries
LeftByLoad ==
    (IF DOMAIN m_id2mat # {} THEN {"m_id2mat"} ELSE {})
        \cup (IF DOMAIN m_name2tex # {} THEN {"m_name2tex"} ELSE {})
        \cup (IF m_resolve_requests # {} THEN {"m_resolve_requests"} ELSE {})
        \cup (IF lpc = "failed" THEN {"exception"} ELSE {})

\* an entry that leaves m_resolve_requests as the previous call left it
LoadMaterialsEnterKeepRequests(fileResult) ==
    /\ lpc \in {"idle", "done"} \/ (lpc = "failed" /\ lerror # "crash")
    /\ entryLeft' = LeftByLoad
    /\ ioLoad' = fileResult
    /\ UNCHANGED ioSave
    /\ m_id2mat' = EmptyMap
    /\ m_name2tex' = EmptyMap
    /\ resolved' = {}
    /\ materials' = {}
    /\ nodes' = <<>>
    /\ ldoc' = <<>>
    /\ imageLoads' = <<>>
    /\ lerror' = "none"
    /\ lpc' = "records"
    /\ UNCHANGED m_resolve_requests
    /\ UNCHANGED <<collVars, saveVars, mapVars, extVars>>

\* LoadMaterials is entered: the members are cleared, the document is opened.
\* fileResult is what doc.LoadFile returns; the code does not look at it.
LoadMaterialsEnter(fileResult) ==
    /\ lpc \in {"idle", "done"} \/ (lpc = "failed" /\ lerror # "crash")
    /\ entryLeft' = LeftByLoad
    /\ ioLoad' = fileResult
    /\ UNCHANGED ioSave
    /\ m_id2mat' = EmptyMap
    /\ m_name2tex' = EmptyMap
    /\ m_resolve_requests' = {}
    /\ resolved' = {}
    /\ materials' = {}
    /\ nodes' = <<>>
    /\ ldoc' = <<>>
    /\ imageLoads' = <<>>
    /\ lerror' = "none"
    /\ lpc' = "records"
    /\ UNCHANGED <<collVars, saveVars, mapVars, extVars>>

\* LoadMaterials on a file that is read
LoadMaterialsBegin == LoadMaterialsEnter("XML_SUCCESS")

\* LoadMaterial up to the loop over the Input children. A missing attribute
\* makes std::string(nullptr) or atoi(nullptr): undefined behaviour, which the
\* usual builds turn into std::logic_error or a crash.
LoadMaterialBegin(el) ==
    /\ lpc = "records"
    /\ ldoc' = Append(ldoc, el)
    /\ IF \/ el.type = NoAttr
          \/ el.type = "simple" /\ el.bxdf = NoAttr
          \/ el.type = "blend" /\ el.blend_type = NoAttr
       THEN /\ lpc' = "failed"
            /\ lerror' \in {"std::logic_error", "crash"}
            /\ UNCHANGED nodes
       ELSE IF el.type = "simple"
       THEN /\ nodes' = Append(nodes, [kind |-> "SingleBxdf", name |-> el.name,
                                       thin |-> (el.thin = "true"),
                                       bxdf |-> el.bxdf, blend_type |-> NoAttr,
                                       inputs |-> EmptyMap])
            /\ lpc' = "inputs"
            /\ UNCHANGED lerror
       ELSE IF el.type = "blend"
       THEN /\ nodes' = Append(nodes, [kind |-> "MultiBxdf", name |-> el.name,
                                       thin |-> (el.thin = "true"),
                                       bxdf |-> NoAttr, blend_type |-> el.blend_type,
                                       inputs |-> EmptyMap])
            /\ lpc' = "inputs"
            /\ UNCHANGED lerror
       ELSE /\ lpc' = "failed"
            /\ lerror' = "Unsupported material type"
            /\ UNCHANGED nodes
    /\ UNCHANGED <<materials, m_id2mat, m_name2tex, m_resolve_requests, resolved,
                   imageLoads>>
    /\ UNCHANGED <<collVars, saveVars, mapVars, extVars, ioVars>>

\* an Input child that is read and not looked at
LoadInputIgnored(inp) ==
    /\ lpc = "inputs"
    /\ ldoc' = [ldoc EXCEPT ![Len(ldoc)].inputs = Append(@, inp)]
    /\ UNCHANGED <<lpc, lerror, nodes, materials, m_id2mat, m_name2tex,
                   m_resolve_requests, resolved, imageLoads>>
    /\ UNCHANGED <<collVars, saveVars, mapVars, extVars, ioVars>>

\* LoadInput for the next Input child of the element being loaded.
LoadInput(inp) ==
    /\ lpc = "inputs"
    /\ ldoc' = [ldoc EXCEPT ![Len(ldoc)].inputs = Append(@, inp)]
    /\ IF inp.type = "float4"
       THEN /\ nodes' = SetInputValue(nodes, cur, inp.name,
                                      FloatValue(ParseFloat4(inp.fval)))
            /\ UNCHANGED <<lpc, lerror, m_name2tex, m_resolve_requests, imageLoads>>
       ELSE IF inp.type = "texture"
       THEN IF inp.sval \in DOMAIN m_name2tex
            THEN /\ nodes' = SetInputValue(nodes, cur, inp.name,
                                           TextureValue(m_name2tex[inp.sval]))
                 /\ UNCHANGED <<lpc, lerror, m_name2tex, m_resolve_requests,
                                imageLoads>>
            ELSE \* io.LoadImage returns a new asset: the next one of imageLoads
                 LET texture == Len(imageLoads) + 1
                 IN /\ imageLoads' = Append(imageLoads, inp.sval)
                    /\ nodes' = SetInputValue(nodes, cur, inp.name,
                                              TextureValue(texture))
                    /\ m_name2tex' = RememberTexture(m_name2tex, inp.name,
                                                     inp.sval, texture)
                    /\ UNCHANGED <<lpc, lerror, m_resolve_requests>>
       ELSE IF inp.type = "material"
       THEN IF inp.ival \in DOMAIN m_id2mat
            THEN /\ nodes' = SetInputValue(nodes, cur, inp.name,
                                           MaterialValue(m_id2mat[inp.ival]))
                 /\ UNCHANGED <<lpc, lerror, m_name2tex, m_resolve_requests,
                                imageLoads>>
            ELSE /\ m_resolve_requests' =
                        EmplaceRequest(m_resolve_requests,
                            [material |-> cur, input |-> inp.name, id |-> inp.ival])
                 /\ UNCHANGED <<lpc, lerror, nodes, m_name2tex, imageLoads>>
       ELSE /\ lpc' = "failed"
            /\ lerror' = "Unsupported input type"
            /\ UNCHANGED <<nodes, m_name2tex, m_resolve_requests, imageLoads>>
    /\ UNCHANGED <<materials, m_id2mat, resolved>>
    /\ UNCHANGED <<collVars, saveVars, mapVars, extVars, ioVars>>

\* The Input children are exhausted: the node is registered under its id and
\* inserted into the result set.
LoadMaterialEnd ==
    /\ lpc = "inputs"
    /\ m_id2mat' = MapPut(m_id2mat, ldoc[Len(ldoc)].id, cur)
    /\ materials' = materials \cup {cur}
    /\ lpc' = "records"
    /\ UNCHANGED <<ldoc, lerror, nodes, m_name2tex, m_resolve_requests, resolved,
                   imageLoads>>
    /\ UNCHANGED <<collVars, saveVars, mapVars, extVars, ioVars>>

\* The document has no further element.
LoadRecordsEnd ==
    /\ lpc = "records"
    /\ lpc' = "resolve"
    /\ UNCHANGED <<ldoc, lerror, nodes, materials, m_id2mat, m_name2tex,
                   m_resolve_requests, resolved, imageLoads>>
    /\ UNCHANGED <<collVars, saveVars, mapVars, extVars, ioVars>>

\* the request the range-for over the std::set visits next: ascending id
NextRequest(pending) == CHOOSE r \in pending : \A q \in pending : r.id <= q.id

\* One iteration of the fix-up loop. m_id2mat[i.id] inserts a null entry when
\* the id is not in the map.
ResolveStep ==
    /\ lpc = "resolve"
    /\ m_resolve_requests # resolved
    /\ LET i == NextRequest(m_resolve_requests \ resolved)
           table == IF i.id \in DOMAIN m_id2mat THEN m_id2mat
                    ELSE MapPut(m_id2mat, i.id, NoNode)
       IN /\ m_id2mat' = table
          /\ nodes' = SetInputValue(nodes, i.material, i.input,
                                    MaterialValue(table[i.id]))
          /\ resolved' = resolved \cup {i}
    /\ UNCHANGED <<ldoc, lpc, lerror, materials, m_name2tex, m_resolve_requests,
                   imageLoads>>
    /\ UNCHANGED <<collVars, saveVars, mapVars, extVars, ioVars>>

\* return std::make_unique<ContainerIterator<...>>(std::move(materials))
LoadMaterialsReturn ==
    /\ lpc = "resolve"
    /\ m_resolve_requests = resolved
    /\ lpc' = "done"
    /\ UNCHANGED <<ldoc, lerror, nodes, materials, m_id2mat, m_name2tex,
                   m_resolve_requests, resolved, imageLoads>>
    /\ UNCHANGED <<collVars, saveVars, mapVars, extVars, ioVars>>

\* the documents the reader is run on
DocIds == {1, 2}
DocInputNames == {"albedo", "ior"}
DocResources == {"albedo", "t.jpg"}
DocKinds == {"simple", "blend"}
DocFloats == {<<1, 2, 3, 0>>}

DocElements ==
    {MaterialElement("m", id, "true", type, "lambert", "0") :
        id \in DocIds, type \in DocKinds}
    \cup {MaterialElement("m", 1, "true", "uberv2", "lambert", "0")}

DocInputs ==
    {FloatInput(n, v) : n \in DocInputNames, v \in DocFloats}
    \cup {TextureInput(n, f) : n \in DocInputNames, f \in DocResources}
    \cup {MaterialInput(n, i) : n \in DocInputNames, i \in DocIds}
    \cup {OtherInput("albedo", "int")}

CollectIdle ==
    /\ deps = [m \in Mats |-> {}]
    /\ shapeMat = [i \in 1..Len(ShapeSeq) |-> NoMat]
    /\ cpc = "idle"
    /\ shapeIdx = 1
    /\ material_stack = <<>>
    /\ mats = {}
    /\ collected = {}

InitLoad == CollectIdle /\ LoadIdle /\ SaveIdle /\ MapIdle /\ ExtIdle

NextLoad ==
    \/ lpc = "idle" /\ LoadMaterialsBegin
    \/ \E el \in DocElements : Len(ldoc) < MaxRecords /\ LoadMaterialBegin(el)
    \/ \E inp \in DocInputs : TotalInputs(ldoc) < MaxInputs /\ LoadInput(inp)
    \/ LoadMaterialEnd
    \/ LoadRecordsEnd
    \/ ResolveStep
    \/ LoadMaterialsReturn

SpecLoad == InitLoad /\ [][NextLoad]_vars

----------------------------------------------------------------------------
(* Claims about the reader *)

\* the Input elements of the document: <<record, position>>
InputRecords ==
    UNION {{<<i, k>> : k \in 1..Len(ldoc[i].inputs)} : i \in 1..Len(ldoc)}

InputAt(p) == ldoc[p[1]].inputs[p[2]]

\* the records that declare the id
Declared(id) == {j \in 1..Len(ldoc) : ldoc[j].id = id}

\* no other Input element of the same record has the same name
NameOnce(p) ==
    \A q \in InputRecords : (q[1] = p[1] /\ InputAt(q).name = InputAt(p).name) => q = p

\* the value the node of the record holds in the input the element names
Held(p) ==
    IF InputAt(p).name \in DOMAIN nodes[p[1]].inputs
    THEN nodes[p[1]].inputs[InputAt(p).name]
    ELSE [type |-> "unset", float_value |-> Zero4, tex_value |-> NoTex,
          mat_value |-> NoNode]

\* C3: a material-typed input of record A whose value is the id of a record B
\* that appears later in the document holds B's node when LoadMaterials returns.
C3_ForwardReferenceResolved ==
    lpc = "done" =>
        \A p \in InputRecords : \A j \in 1..Len(ldoc) :
            (/\ InputAt(p).type = "material"
             /\ j > p[1]
             /\ Declared(InputAt(p).ival) = {j}
             /\ NameOnce(p))
            => Held(p) = MaterialValue(j)

\* C4: LoadMaterials does not return a node set when some material-typed input
\* targets an id that no record of the document declares.
C4_DanglingReferenceFails ==
    lpc = "done" =>
        \A p \in InputRecords :
            InputAt(p).type = "material" => Declared(InputAt(p).ival) # {}

\* C5: when LoadMaterials returns, every material-typed input record (here:
\* every one whose target id is declared) is bound to a node declared under
\* its target id, also when several records reference the same id.
C5_EveryReferenceBound ==
    lpc = "done" =>
        \A p \in InputRecords :
            (/\ InputAt(p).type = "material"
             /\ Declared(InputAt(p).ival) # {}
             /\ NameOnce(p))
            => /\ Held(p).type = "material"
               /\ Held(p).mat_value \in Declared(InputAt(p).ival)

\* C6: within one LoadMaterials call the image store loads a resource name at
\* most once, and two texture inputs naming the same resource hold the same
\* asset.
C6_TextureLoadedOnce ==
    /\ \A a, b \in 1..Len(imageLoads) : imageLoads[a] = imageLoads[b] => a = b
    /\ lpc = "done" =>
        \A p, q \in InputRecords :
            (/\ InputAt(p).type = "texture" /\ InputAt(q).type = "texture"
             /\ InputAt(p).sval = InputAt(q).sval
             /\ NameOnce(p) /\ NameOnce(q))
            => Held(p) = Held(q)

----------------------------------------------------------------------------
(* Writer: MaterialIoXML::SaveMaterials, WriteMaterial, WriteInput *)

\* largest number of materials in a node set written
MaxNodes == 2

\* The material objects a node set is drawn from, by their addresses: the
\* high and the low 32 bits of the 64-bit pointer value. Objects 1 and 2 lie
\* 4 GiB apart.
MatAddr == <<[hi |-> 0, lo |-> 16], [hi |-> 1, lo |-> 16], [hi |-> 0, lo |-> 32],
             [hi |-> 1, lo |-> 48]>>

\* (int)(reinterpret_cast<std::uint64_t>(p)): the low 32 bits
NarrowToInt(addr) == addr.lo

\* operator<< of a float with the default precision: 6 significant digits
\* (numbers below 10^7 here)
RoundSig6(x) == IF x < 1000000 THEN x ELSE ((x + 5) \div 10) * 10

\* Float4ToString: the four numbers the text denotes
Float4ToString(v) == <<RoundSig6(v[1]), RoundSig6(v[2]), RoundSig6(v[3]), RoundSig6(v[4])>>

\* oss << (std::uint64_t)value.tex_value.get() << ".jpg"
TextureFileName(tex) == ToString(tex) \o ".jpg"

\* XMLPrinter::PushAttribute(name, bool)
BoolToString(b) == IF b THEN "true" ELSE "false"

\* WriteInput without the m_tex2name lookup and update
WriteInputNoRemember(st, name, value) ==
    IF value.type = "float4"
    THEN [st EXCEPT !.inputs = Append(@, FloatInput(name, Float4ToString(value.float_value)))]
    ELSE IF value.type = "texture"
    THEN [st EXCEPT !.inputs = Append(@, TextureInput(name, TextureFileName(value.tex_value))),
                    !.saves = Append(@, [path |-> TextureFileName(value.tex_value),
                                         texture |-> value.tex_value])]
    ELSE [st EXCEPT !.inputs = Append(@, MaterialInput(name, NarrowToInt(MatAddr[value.mat_value])))]

\* WriteInput on st = [inputs: the Input elements printed for the material,
\* tex2name: m_tex2name, saves: the SaveImage calls]
WriteInput(st, name, value) ==
    IF value.type = "float4"
    THEN [st EXCEPT !.inputs = Append(@, FloatInput(name, Float4ToString(value.float_value)))]
    ELSE IF value.type = "texture"
    THEN IF value.tex_value \in DOMAIN st.tex2name
         THEN [st EXCEPT !.inputs = Append(@, TextureInput(name, st.tex2name[value.tex_value]))]
         ELSE [inputs |-> Append(st.inputs, TextureInput(name, TextureFileName(value.tex_value))),
               tex2name |-> MapPut(st.tex2name, value.tex_value,
                                   TextureFileName(value.tex_value)),
               saves |-> Append(st.saves, [path |-> TextureFileName(value.tex_value),
                                           texture |-> value.tex_value])]
    ELSE [st EXCEPT !.inputs = Append(@, MaterialInput(name, NarrowToInt(MatAddr[value.mat_value])))]

MicrofacetTypes == {"kMicrofacetGGX", "kMicrofacetBeckmann",
                    "kMicrofacetRefractionGGX", "kMicrofacetRefractionBeckmann"}

\* the WriteInput calls of WriteMaterial, in order
WriteInputs(st, material) ==
    LET s1 == WriteInput(st, "albedo", material.inputs["albedo"])
        s2 == IF material.inputs["normal"].tex_value # NoTex
              THEN WriteInput(s1, "normal", material.inputs["normal"])
              ELSE IF material.inputs["bump"].tex_value # NoTex
              THEN WriteInput(s1, "bump", material.inputs["bump"])
              ELSE s1
        s3 == WriteInput(s2, "ior", material.inputs["ior"])
        s4 == WriteInput(s3, "fresnel", material.inputs["fresnel"])
    IN IF material.bxdf \in MicrofacetTypes
       THEN WriteInput(s4, "roughness", material.inputs["roughness"])
       ELSE s4

\* SaveMaterials is entered: m_tex2name is cleared.
SaveMaterialsBegin ==
    /\ wpc \in {"idle", "done"}
    /\ entryLeft' = IF DOMAIN m_tex2name # {} THEN {"m_tex2name"} ELSE {}
    /\ ioSave' = "none"
    /\ UNCHANGED ioLoad
    /\ m_tex2name' = EmptyMap
    /\ wnodes' = <<>>
    /\ wdoc' = <<>>
    /\ imageSaves' = <<>>
    /\ wpc' = "iter"
    /\ UNCHANGED <<collVars, loadVars, mapVars, extVars>>

\* WriteMaterial for the next material of the iterator. No "type" attribute
\* is written. For a material that is no UberV2Material the assert aborts a
\* debug build and is compiled out of a release build.
WriteMaterial(material) ==
    /\ wpc = "iter"
    /\ \A i \in 1..Len(wnodes) : wnodes[i].obj # material.obj
    /\ wnodes' = Append(wnodes, material)
    /\ IF material.kind = "UberV2Material"
       THEN LET st == WriteInputs([inputs |-> <<>>, tex2name |-> m_tex2name,
                                   saves |-> imageSaves], material)
            IN /\ wdoc' = Append(wdoc,
                       [name |-> material.name,
                        id |-> NarrowToInt(MatAddr[material.obj]),
                        thin |-> BoolToString(material.thin),
                        type |-> NoAttr,
                        bxdf |-> material.bxdf,
                        blend_type |-> NoAttr,
                        inputs |-> st.inputs])
               /\ m_tex2name' = st.tex2name
               /\ imageSaves' = st.saves
               /\ UNCHANGED wpc
       ELSE /\ wdoc' = Append(wdoc,
                       [name |-> material.name,
                        id |-> NarrowToInt(MatAddr[material.obj]),
                        thin |-> BoolToString(material.thin),
                        type |-> NoAttr, bxdf |-> NoAttr, blend_type |-> NoAttr,
                        inputs |-> <<>>])
            /\ wpc' \in {"iter", "aborted"}
            /\ UNCHANGED <<m_tex2name, imageSaves>>
    /\ UNCHANGED <<collVars, loadVars, mapVars, extVars, ioVars>>

\* The iterator is exhausted: the document is parsed from the printer's
\* buffer and saved. fileResult is what doc.SaveFile returns; the code does
\* not look at it and the function returns void.
SaveMaterialsFinish(fileResult) ==
    /\ wpc = "iter"
    /\ wpc' = "done"
    /\ ioSave' = fileResult
    /\ UNCHANGED <<ioLoad, entryLeft>>
    /\ UNCHANGED <<wnodes, wdoc, m_tex2name, imageSaves>>
    /\ UNCHANGED <<collVars, loadVars, mapVars, extVars>>

\* SaveMaterials on a file that is written
SaveMaterialsEnd == SaveMaterialsFinish("XML_SUCCESS")

\* the node sets the writer is run on
SaveFloats == {<<1, 2, 3, 0>>}
SaveTextures == {4096, 8192}
NoTexture == TextureValue(NoTex)

SaveInputs ==
    [albedo : {FloatValue(v) : v \in SaveFloats} \cup {TextureValue(t) : t \in SaveTextures},
     normal : {NoTexture, TextureValue(4096)},
     bump : {NoTexture, TextureValue(8192)},
     ior : {FloatValue(v) : v \in SaveFloats} \cup {TextureValue(4096)},
     fresnel : {FloatValue(v) : v \in SaveFloats},
     roughness : {TextureValue(8192)}]

\* the k-th material of a node set: object k
SaveMaterialsAt(k) ==
    {[obj |-> k, kind |-> "UberV2Material", name |-> "m", thin |-> FALSE,
      bxdf |-> b, inputs |-> i] :
        b \in {"kLambert", "kMicrofacetGGX"}, i \in SaveInputs}

InitSave == CollectIdle /\ LoadIdle /\ SaveIdle /\ MapIdle /\ ExtIdle

NextSave ==
    \/ wpc = "idle" /\ SaveMaterialsBegin
    \/ \E material \in SaveMaterialsAt(Len(wnodes) + 1) :
            Len(wnodes) < MaxNodes /\ WriteMaterial(material)
    \/ SaveMaterialsEnd

SpecSave == InitSave /\ [][NextSave]_vars

----------------------------------------------------------------------------
(* Claims about the writer *)

\* the Input elements printed: <<record, position>>
WrittenInputs ==
    UNION {{<<i, k>> : k \in 1..Len(wdoc[i].inputs)} : i \in 1..Len(wdoc)}

WrittenAt(p) == wdoc[p[1]].inputs[p[2]]

\* the value of the material's input the element was printed from
SourceOf(p) == wnodes[p[1]].inputs[WrittenAt(p).name]

\* C7: within one SaveMaterials call the image store saves each texture asset
\* at most once, and all texture input records of one asset carry one name.
C7_TextureSavedOnce ==
    /\ \A a, b \in 1..Len(imageSaves) :
            imageSaves[a].texture = imageSaves[b].texture => a = b
    /\ \A p, q \in WrittenInputs :
            (/\ WrittenAt(p).type = "texture" /\ WrittenAt(q).type = "texture"
             /\ SourceOf(p).tex_value = SourceOf(q).tex_value)
            => WrittenAt(p).sval = WrittenAt(q).sval
    /\ \A p \in WrittenInputs :
            WrittenAt(p).type = "texture" =>
                \E a \in 1..Len(imageSaves) :
                    /\ imageSaves[a].texture = SourceOf(p).tex_value
                    /\ imageSaves[a].path = WrittenAt(p).sval

C7_Witness ==
    /\ wpc = "done"
    /\ Len(imageSaves) = 1
    /\ \E p, q \in WrittenInputs :
            /\ p[1] # q[1]
            /\ WrittenAt(p).type = "texture" /\ WrittenAt(q).type = "texture"
            /\ SourceOf(p).tex_value = SourceOf(q).tex_value
    /\ \E p, q \in WrittenInputs :
            /\ p[1] = q[1] /\ p # q
            /\ WrittenAt(p).type = "texture" /\ WrittenAt(q).type = "texture"

----------------------------------------------------------------------------
(* Saving a node set and loading the saved document *)

\* the node sets saved and loaded again
RoundTripFloats == {<<1, 2, 3, 0>>, <<1234567, 0, 0, 0>>}

RoundTripMaterials ==
    {[obj |-> o, kind |-> "UberV2Material", name |-> n, thin |-> t,
      bxdf |-> "kLambert",
      inputs |-> [albedo |-> a, normal |-> NoTexture, bump |-> NoTexture,
                  ior |-> FloatValue(<<1, 2, 3, 0>>),
                  fresnel |-> FloatValue(<<1, 2, 3, 0>>),
                  roughness |-> FloatValue(<<1, 2, 3, 0>>)]] :
        o \in 1..Len(MatAddr), n \in {"a", "b"}, t \in BOOLEAN,
        a \in {FloatValue(v) : v \in RoundTripFloats} \cup {TextureValue(4096)}}
    \cup
    {[obj |-> o, kind |-> "SingleBxdf", name |-> "a", thin |-> FALSE,
      bxdf |-> "kLambert",
      inputs |-> [albedo |-> FloatValue(<<1, 2, 3, 0>>),
                  normal |-> NoTexture, bump |-> NoTexture,
                  ior |-> FloatValue(<<1, 2, 3, 0>>),
                  fresnel |-> FloatValue(<<1, 2, 3, 0>>),
                  roughness |-> FloatValue(<<1, 2, 3, 0>>)]] :
        o \in 1..Len(MatAddr)}

\* LoadMaterials is called on the file SaveMaterials has written.
LoadSavedBegin ==
    /\ wpc = "done"
    /\ lpc = "idle"
    /\ LoadMaterialsBegin

\* LoadMaterial on the next element of the saved document
LoadSavedMaterial ==
    /\ wpc = "done"
    /\ Len(ldoc) < Len(wdoc)
    /\ LoadMaterialBegin([wdoc[Len(ldoc) + 1] EXCEPT !.inputs = <<>>])

\* the saved document has no further element
LoadSavedRecordsEnd ==
    /\ wpc = "done"
    /\ Len(ldoc) = Len(wdoc)
    /\ LoadRecordsEnd

InitSaveLoad == CollectIdle /\ LoadIdle /\ SaveIdle /\ MapIdle /\ ExtIdle

\* No element WriteMaterial prints has a "type" attribute, so LoadMaterial
\* leaves at its second line on every saved element: LoadInput, the
\* registration of the node and the fix-up loop are never reached on a saved
\* document and are not part of this next-state relation.
NextSaveLoad ==
    \/ wpc = "idle" /\ SaveMaterialsBegin
    \/ \E material \in RoundTripMaterials :
            Len(wnodes) < MaxNodes /\ WriteMaterial(material)
    \/ SaveMaterialsEnd
    \/ LoadSavedBegin
    \/ LoadSavedMaterial
    \/ LoadSavedRecordsEnd
    \/ LoadMaterialsReturn

SpecSaveLoad == InitSaveLoad /\ [][NextSaveLoad]_vars

\* the asset saved under the file name a loaded texture was read from
SavedUnder(path) ==
    {imageSaves[a].texture : a \in {b \in 1..Len(imageSaves) : imageSaves[b].path = path}}

\* the loaded value is the value saved: the same numbers, or a texture read
\* from the file the saved texture was written to
SameValue(saved, loaded) ==
    IF saved.type = "float4"
    THEN loaded.type = "float4" /\ loaded.float_value = saved.float_value
    ELSE /\ loaded.type = "texture"
         /\ loaded.tex_value \in 1..Len(imageLoads)
         /\ SavedUnder(imageLoads[loaded.tex_value]) = {saved.tex_value}

\* the inputs WriteMaterial prints for the material
PrintedInputNames(material) ==
    {"albedo", "ior", "fresnel"}
    \cup (IF material.inputs["normal"].tex_value # NoTex THEN {"normal"}
          ELSE IF material.inputs["bump"].tex_value # NoTex THEN {"bump"} ELSE {})
    \cup (IF material.bxdf \in MicrofacetTypes THEN {"roughness"} ELSE {})

\* C8: a node set of UberV2 materials with numeric and texture inputs only,
\* saved and then loaded, is accepted by LoadMaterials and comes back with the
\* same number of nodes and the same names, kinds, thin flags and input values.
C8_RoundTrip ==
    (/\ wpc = "done"
     /\ lpc \in {"done", "failed"}
     /\ \A i \in 1..Len(wnodes) :
            /\ wnodes[i].kind = "UberV2Material"
            /\ \A n \in DOMAIN wnodes[i].inputs :
                    wnodes[i].inputs[n].type \in {"float4", "texture"})
    => /\ lpc = "done"
       /\ Len(nodes) = Len(wnodes)
       /\ \A i \in 1..Len(wnodes) :
            /\ nodes[i].name = wnodes[i].name
            /\ nodes[i].kind = wnodes[i].kind
            /\ nodes[i].thin = wnodes[i].thin
            /\ \A n \in PrintedInputNames(wnodes[i]) :
                    /\ n \in DOMAIN nodes[i].inputs
                    /\ SameValue(wnodes[i].inputs[n], nodes[i].inputs[n])

\* C9: within one SaveMaterials call any two distinct materials of the node
\* set are written with different id attribute values.
C9_WrittenIdsUnique ==
    \A i, j \in 1..Len(wdoc) :
        wnodes[i].obj # wnodes[j].obj => wdoc[i].id # wdoc[j].id

----------------------------------------------------------------------------
(* Mapping utility: MaterialIo::LoadMaterialMapping *)

\* largest number of Mapping elements of a mapping file
MaxMappings == 3

\* std::map::emplace: nothing is inserted when the key is in the map
MapEmplace(f, k, v) == IF k \in DOMAIN f THEN f ELSE MapPut(f, k, v)

\* LoadMaterialMapping is entered: an empty map, the document is opened.
LoadMaterialMappingBegin ==
    /\ mpc = "idle"
    /\ map' = EmptyMap
    /\ mapDoc' = <<>>
    /\ mpc' = "records"
    /\ UNCHANGED <<collVars, loadVars, saveVars, extVars, ioVars>>

\* One iteration of the element loop: map.emplace(from, to).
LoadMappingElement(from, to) ==
    /\ mpc = "records"
    /\ mapDoc' = Append(mapDoc, <<from, to>>)
    /\ map' = MapEmplace(map, from, to)
    /\ UNCHANGED mpc
    /\ UNCHANGED <<collVars, loadVars, saveVars, extVars, ioVars>>

\* return map
LoadMaterialMappingReturn ==
    /\ mpc = "records"
    /\ mpc' = "done"
    /\ UNCHANGED <<mapDoc, map>>
    /\ UNCHANGED <<collVars, loadVars, saveVars, extVars, ioVars>>

\* the material names of mapping files
MappingNames == {"a", "b", "c"}

InitMapping == CollectIdle /\ LoadIdle /\ SaveIdle /\ MapIdle /\ ExtIdle

NextMapping ==
    \/ LoadMaterialMappingBegin
    \/ \E from \in MappingNames, to \in MappingNames :
            Len(mapDoc) < MaxMappings /\ LoadMappingElement(from, to)
    \/ LoadMaterialMappingReturn

SpecMapping == InitMapping /\ [][NextMapping]_vars

\* the position of the last Mapping element with the "from" value
LastWith(from) ==
    CHOOSE i \in 1..Len(mapDoc) :
        /\ mapDoc[i][1] = from
        /\ \A j \in 1..Len(mapDoc) : mapDoc[j][1] = from => j <= i

\* C10: the table LoadMaterialMapping returns maps every "from" value to the
\* "to" value of the last Mapping element with that "from" value.
C10_LastMappingWins ==
    mpc = "done" =>
        /\ DOMAIN map = {mapDoc[i][1] : i \in 1..Len(mapDoc)}
        /\ \A from \in DOMAIN map : map[from] = mapDoc[LastWith(from)][2]

----------------------------------------------------------------------------
(* MaterialIo::ReplaceSceneMaterials *)

MaxLoaded == 2

\* the names materials carry
SceneNames == {"a", "b"}

\* a loop without the assignment to name2mat: the map stays as it is
KeepIndex(index, name, material) == index

\* name2mat[name] = material;
IndexByName(index, name, material) == MapPut(index, name, material)

\* the material a shape with the given material is to get, NoMat for none:
\* the shape has a material, mapping has its name, and name2mat has the
\* name it is mapped to.
FindReplacement(index, mapping, material) ==
    IF material = NoMat
    THEN NoMat
    ELSE LET name == matName[material] IN
         IF name \in DOMAIN mapping
         THEN IF mapping[name] \in DOMAIN index
              THEN index[mapping[name]]
              ELSE NoMat
         ELSE NoMat

\* ReplaceSceneMaterials is entered with an empty name2mat.
ReplaceSceneMaterialsBegin ==
    /\ rpc = "idle"
    /\ rpc' = "index"
    /\ rIdx' = 1
    /\ name2mat' = EmptyMap
    /\ UNCHANGED <<iterNames, rebound>>
    /\ UNCHANGED <<collVars, loadVars, saveVars, mapVars, sceneVars, identVars, ioVars>>

\* one round of the loop over the iterator
IndexMaterial ==
    /\ rpc = "index"
    /\ rIdx <= Len(iterNames)
    /\ name2mat' = IndexByName(name2mat, iterNames[rIdx], rIdx)
    /\ rIdx' = rIdx + 1
    /\ UNCHANGED <<iterNames, rebound, rpc>>
    /\ UNCHANGED <<collVars, loadVars, saveVars, mapVars, sceneVars, identVars, ioVars>>

\* the iterator is exhausted: the shape iterator is created
IndexEnd ==
    /\ rpc = "index"
    /\ rIdx > Len(iterNames)
    /\ rpc' = "shapes"
    /\ rIdx' = 1
    /\ UNCHANGED <<iterNames, rebound, name2mat>>
    /\ UNCHANGED <<collVars, loadVars, saveVars, mapVars, sceneVars, identVars, ioVars>>

\* one round of the loop over the shapes
ReplaceShape ==
    /\ rpc = "shapes"
    /\ rIdx <= Len(ShapeSeq)
    /\ LET found == FindReplacement(name2mat, map, shapeMat[rIdx]) IN
         rebound' = IF found = NoMat
                    THEN rebound
                    ELSE [rebound EXCEPT ![rIdx] = found]
    /\ rIdx' = rIdx + 1
    /\ UNCHANGED <<iterNames, name2mat, rpc>>
    /\ UNCHANGED <<collVars, loadVars, saveVars, mapVars, sceneVars, identVars, ioVars>>

\* the shape iterator is exhausted: the function returns
ReplaceSceneMaterialsReturn ==
    /\ rpc = "shapes"
    /\ rIdx > Len(ShapeSeq)
    /\ rpc' = "done"
    /\ UNCHANGED <<iterNames, name2mat, rebound, rIdx>>
    /\ UNCHANGED <<collVars, loadVars, saveVars, mapVars, sceneVars, identVars, ioVars>>

\* the mappings and the iterators the function is called with
MappingsOver(names) == UNION {[D -> names] : D \in SUBSET names}

NamesUpTo(n) == UNION {[1..k -> SceneNames] : k \in 0..n}

InitReplace ==
    /\ deps = [m \in Mats |-> {}]
    /\ shapeMat \in [1..Len(ShapeSeq) -> Mats \cup {NoMat}]
    /\ cpc = "idle"
    /\ shapeIdx = 1
    /\ material_stack = <<>>
    /\ mats = {}
    /\ collected = {}
    /\ LoadIdle
    /\ SaveIdle
    /\ mapDoc = <<>>
    /\ map \in MappingsOver(SceneNames)
    /\ mpc = "idle"
    /\ matName \in [Mats -> SceneNames]
    /\ matInputs = [m \in Mats |-> <<>>]
    /\ iterNames \in NamesUpTo(MaxLoaded)
    /\ name2mat = EmptyMap
    /\ rebound = [i \in 1..Len(ShapeSeq) |-> NoMat]
    /\ rpc = "idle"
    /\ rIdx = 1
    /\ IdentityIdle
    /\ IoIdle

NextReplace ==
    \/ ReplaceSceneMaterialsBegin
    \/ IndexMaterial
    \/ IndexEnd
    \/ ReplaceShape
    \/ ReplaceSceneMaterialsReturn

SpecReplace == InitReplace /\ [][NextReplace]_vars

\* the shapes ReplaceSceneMaterials is to rebind: those with a material whose
\* name is a key of the mapping and is mapped to the name of a material of
\* the iterator
ToRebind(i) ==
    /\ shapeMat[i] # NoMat
    /\ matName[shapeMat[i]] \in DOMAIN map
    /\ \E k \in 1..Len(iterNames) : iterNames[k] = map[matName[shapeMat[i]]]

\* C11: when ReplaceSceneMaterials has returned, a shape is bound to a
\* material of the iterator exactly when it had a material whose name is a
\* key of the mapping and the name it is mapped to is the name of a material
\* of the iterator, and then it is bound to a material of that name; every
\* other shape keeps what it had. The call has no failing exit.
C11_ReboundWhenMapped ==
    rpc = "done" =>
        \A i \in 1..Len(ShapeSeq) :
            IF ToRebind(i)
            THEN /\ rebound[i] \in 1..Len(iterNames)
                 /\ iterNames[rebound[i]] = map[matName[shapeMat[i]]]
            ELSE rebound[i] = NoMat

\* one shape is rebound to a material of another name, another shape with a
\* mapped name is left alone because no material has the target name
C11_Witness ==
    /\ rpc = "done"
    /\ \E i, j \in 1..Len(ShapeSeq) :
            /\ rebound[i] # NoMat
            /\ iterNames[rebound[i]] # matName[shapeMat[i]]
            /\ shapeMat[j] # NoMat
            /\ matName[shapeMat[j]] \in DOMAIN map
            /\ rebound[j] = NoMat

----------------------------------------------------------------------------
(* One MaterialIo instance used for several LoadMaterials and SaveMaterials
   calls, one after the other *)

\* the documents read
ReuseElements ==
    {MaterialElement("m", 1, "true", "simple", "lambert", "0"),
     MaterialElement("m", 2, "true", "blend", "lambert", "0"),
     MaterialElement("m", 1, "true", "uberv2", "lambert", "0")}

ReuseInputs ==
    {TextureInput("albedo", "t.jpg"), MaterialInput("albedo", 2),
     OtherInput("albedo", "int")}

\* the k-th material of the node sets saved
ReuseMaterialsAt(k) ==
    {[obj |-> k, kind |-> "UberV2Material", name |-> "m", thin |-> FALSE,
      bxdf |-> "kLambert",
      inputs |-> [albedo |-> TextureValue(4096), normal |-> NoTexture,
                  bump |-> NoTexture, ior |-> FloatValue(<<1, 2, 3, 0>>),
                  fresnel |-> FloatValue(<<1, 2, 3, 0>>),
                  roughness |-> TextureValue(8192)]]}

\* no call is running, and the process has not been ended by a crash or an
\* assert
NoCallRunning ==
    /\ lpc \in {"idle", "done"} \/ (lpc = "failed" /\ lerror # "crash")
    /\ wpc \in {"idle", "done"}

InitReuse == CollectIdle /\ LoadIdle /\ SaveIdle /\ MapIdle /\ ExtIdle

NextReuse ==
    \/ NoCallRunning /\ LoadMaterialsBegin
    \/ \E el \in ReuseElements : Len(ldoc) < MaxRecords /\ LoadMaterialBegin(el)
    \/ \E inp \in ReuseInputs : TotalInputs(ldoc) < MaxInputs /\ LoadInput(inp)
    \/ LoadMaterialEnd
    \/ LoadRecordsEnd
    \/ ResolveStep
    \/ LoadMaterialsReturn
    \/ NoCallRunning /\ SaveMaterialsBegin
    \/ \E material \in ReuseMaterialsAt(Len(wnodes) + 1) :
            Len(wnodes) < MaxNodes /\ WriteMaterial(material)
    \/ SaveMaterialsEnd

SpecReuse == InitReuse /\ [][NextReuse]_vars

\* the document read so far has a Material element of a kind the reader does
\* not know, or an Input element of a type it does not know
HasUnsupported ==
    \E i \in 1..Len(ldoc) :
        \/ ldoc[i].type \notin {"simple", "blend", NoAttr}
        \/ \E k \in 1..Len(ldoc[i].inputs) :
                ldoc[i].inputs[k].type \notin {"float4", "texture", "material"}

\* C12: as soon as LoadMaterials has read a Material element of an unsupported
\* kind or an Input element of an unsupported type, wherever in the document
\* and in whichever call, the call has ended with the exception for it; it
\* never reaches its return, so no node set comes back.
C12_UnsupportedAborts ==
    HasUnsupported =>
        /\ lpc = "failed"
        /\ lerror \in {"Unsupported material type", "Unsupported input type"}

\* the unsupported element comes after a Material element that was loaded
\* into a node and registered
C12_Witness ==
    /\ HasUnsupported
    /\ lpc = "failed"
    /\ materials # {}
    /\ Len(ldoc) > 1

\* C13: a LoadMaterials call that has just been entered has an empty id
\* table, an empty texture cache and no resolve request, and a SaveMaterials
\* call that has just been entered has no texture name, whatever the calls
\* before it have left, those that ended with an exception included.
C13_EnteredClean ==
    /\ (lpc = "records" /\ ldoc = <<>>) =>
            /\ m_id2mat = EmptyMap
            /\ m_name2tex = EmptyMap
            /\ m_resolve_requests = {}
    /\ (wpc = "iter" /\ wnodes = <<>>) => m_tex2name = EmptyMap

\* LoadMaterials is entered after a LoadMaterials call that ended with an
\* exception and left ids, textures and a request behind, and after a
\* SaveMaterials call
C13_Witness ==
    /\ lpc = "records"
    /\ ldoc = <<>>
    /\ entryLeft = {"m_id2mat", "m_name2tex", "m_resolve_requests", "exception"}
    /\ wpc = "done"
    /\ m_tex2name # EmptyMap

----------------------------------------------------------------------------
(* MaterialIo::SaveIdentityMapping *)

\* a test that finds no material in the set
NeverSerialized(set, material) == TRUE

\* serialized_mats.find(material) == serialized_mats.cend()
NotSerialized(set, material) == material \notin set

\* SaveIdentityMapping is entered: the shape iterator is created, the set is
\* empty.
SaveIdentityMappingBegin ==
    /\ ipc = "idle"
    /\ ipc' = "shapes"
    /\ iIdx' = 1
    /\ serialized_mats' = {}
    /\ identDoc' = <<>>
    /\ UNCHANGED <<collVars, loadVars, saveVars, mapVars, sceneVars, replVars, ioVars>>

\* one round of the loop over the shapes
IdentityShape ==
    /\ ipc = "shapes"
    /\ iIdx <= Len(ShapeSeq)
    /\ LET material == shapeMat[iIdx] IN
         IF material # NoMat /\ NotSerialized(serialized_mats, material)
         THEN /\ identDoc' = Append(identDoc, <<matName[material], matName[material]>>)
              /\ serialized_mats' = serialized_mats \cup {material}
         ELSE UNCHANGED <<identDoc, serialized_mats>>
    /\ iIdx' = iIdx + 1
    /\ UNCHANGED ipc
    /\ UNCHANGED <<collVars, loadVars, saveVars, mapVars, sceneVars, replVars, ioVars>>

\* the shape iterator is exhausted: the document is parsed and saved
SaveIdentityMappingEnd ==
    /\ ipc = "shapes"
    /\ iIdx > Len(ShapeSeq)
    /\ ipc' = "done"
    /\ UNCHANGED <<identDoc, serialized_mats, iIdx>>
    /\ UNCHANGED <<collVars, loadVars, saveVars, mapVars, sceneVars, replVars, ioVars>>

InitIdentity ==
    /\ deps = [m \in Mats |-> {}]
    /\ shapeMat \in [1..Len(ShapeSeq) -> Mats \cup {NoMat}]
    /\ cpc = "idle"
    /\ shapeIdx = 1
    /\ material_stack = <<>>
    /\ mats = {}
    /\ collected = {}
    /\ LoadIdle
    /\ SaveIdle
    /\ MapIdle
    /\ matName \in [Mats -> SceneNames]
    /\ matInputs = [m \in Mats |-> <<>>]
    /\ ReplaceIdle
    /\ IdentityIdle
    /\ IoIdle

NextIdentity ==
    \/ SaveIdentityMappingBegin
    \/ IdentityShape
    \/ SaveIdentityMappingEnd

SpecIdentity == InitIdentity /\ [][NextIdentity]_vars

\* C14: the document SaveIdentityMapping has printed holds one Mapping
\* element for each distinct material (as an object) some shape refers to and
\* no other: as many elements as such materials, each with from = to, and of
\* each name as many as there are such materials of that name.
C14_OneRecordPerMaterial ==
    ipc = "done" =>
        /\ Len(identDoc) = Cardinality(ShapeMaterials)
        /\ \A k \in 1..Len(identDoc) : identDoc[k][1] = identDoc[k][2]
        /\ \A name \in SceneNames :
                Cardinality({k \in 1..Len(identDoc) : identDoc[k][1] = name})
                    = Cardinality({m \in ShapeMaterials : matName[m] = name})

\* two shapes share one material, which gets one element
C14_Witness ==
    /\ ipc = "done"
    /\ shapeMat[1] # NoMat
    /\ shapeMat[1] = shapeMat[2]
    /\ Len(identDoc) = 1

----------------------------------------------------------------------------
(* LoadMaterials and SaveMaterials on files that may not be readable or
   writable *)

\* what tinyxml2's XMLDocument::LoadFile and SaveFile return
LoadFileResults == {"XML_SUCCESS", "XML_ERROR_FILE_NOT_FOUND"}
SaveFileResults == {"XML_SUCCESS", "XML_ERROR_FILE_COULD_NOT_BE_OPENED"}

InitIo == CollectIdle /\ LoadIdle /\ SaveIdle /\ MapIdle /\ ExtIdle

\* A document that was not read has no element: doc.FirstChildElement() is
\* null and the loop over the records is not entered.
NextIo ==
    \/ \E r \in LoadFileResults : NoCallRunning /\ LoadMaterialsEnter(r)
    \/ \E el \in ReuseElements :
            /\ ioLoad = "XML_SUCCESS"
            /\ Len(ldoc) < MaxRecords
            /\ LoadMaterialBegin(el)
    \/ \E inp \in ReuseInputs : TotalInputs(ldoc) < MaxInputs /\ LoadInput(inp)
    \/ LoadMaterialEnd
    \/ LoadRecordsEnd
    \/ ResolveStep
    \/ LoadMaterialsReturn
    \/ NoCallRunning /\ SaveMaterialsBegin
    \/ \E material \in ReuseMaterialsAt(Len(wnodes) + 1) :
            Len(wnodes) < MaxNodes /\ WriteMaterial(material)
    \/ \E r \in SaveFileResults : SaveMaterialsFinish(r)

SpecIo == InitIo /\ [][NextIo]_vars

\* C15: SaveMaterials returns normally only when the document was written,
\* and LoadMaterials returns a node set only when the document was read.
C15_IoFailureFatal ==
    /\ wpc = "done" => ioSave = "XML_SUCCESS"
    /\ lpc = "done" => ioLoad = "XML_SUCCESS"

----------------------------------------------------------------------------
(* Further claims about the reader *)

\* documents with a Material element that refers to two later ones
OrderRecords == MaxRecords + 1
OrderIds == 1..OrderRecords

OrderElements ==
    {MaterialElement("m", id, "true", "simple", "lambert", "0") : id \in OrderIds}

OrderInputs ==
    {MaterialInput(n, id) : n \in DocInputNames, id \in OrderIds \ {1}}

InitLoadOrder == CollectIdle /\ LoadIdle /\ SaveIdle /\ MapIdle /\ ExtIdle

NextLoadOrder ==
    \/ lpc = "idle" /\ LoadMaterialsBegin
    \/ \E el \in OrderElements : Len(ldoc) < OrderRecords /\ LoadMaterialBegin(el)
    \/ \E inp \in OrderInputs : TotalInputs(ldoc) < MaxInputs /\ LoadInput(inp)
    \/ LoadMaterialEnd
    \/ LoadRecordsEnd
    \/ ResolveStep
    \/ LoadMaterialsReturn

SpecLoadOrder == InitLoadOrder /\ [][NextLoadOrder]_vars

\* the Input element is a forward reference: a material reference to an id
\* that only Material elements after its own declare
Forward(p) ==
    /\ InputAt(p).type = "material"
    /\ Declared(InputAt(p).ival) # {}
    /\ \A j \in Declared(InputAt(p).ival) : j > p[1]

\* C16: when one Material element has two Input children of the same name,
\* both forward references and to different ids, the input holds after the
\* load a node declared under the id of the later of the two, the requests
\* being applied in the order they were enqueued.
C16_LaterRequestWins ==
    lpc = "done" =>
        \A p, q \in InputRecords :
            (/\ p[1] = q[1] /\ p[2] < q[2]
             /\ InputAt(p).name = InputAt(q).name
             /\ Forward(p) /\ Forward(q)
             /\ InputAt(p).ival # InputAt(q).ival
             /\ \A o \in InputRecords :
                    (o[1] = p[1] /\ InputAt(o).name = InputAt(p).name) => o \in {p, q})
            => /\ Held(q).type = "material"
               /\ Held(q).mat_value \in Declared(InputAt(q).ival)

\* the last of a non-empty set of positions
Last(S) == CHOOSE j \in S : \A k \in S : k <= j

\* C18: when LoadMaterials has returned from a document in which Material
\* elements share an id, there is a node for every element, the id table
\* holds the node of the last element of the id, a reference to the id read
\* after an element of the id holds the node of the last such element before
\* it, and every reference read before all of them (a deferred one) holds the
\* node of the last element of the id.
C18_DuplicateIds ==
    lpc = "done" =>
        /\ materials = 1..Len(ldoc)
        /\ \A j \in 1..Len(ldoc) : m_id2mat[ldoc[j].id] = Last(Declared(ldoc[j].id))
        /\ \A p \in InputRecords :
                LET id == InputAt(p).ival
                    before == {j \in Declared(id) : j < p[1]}
                IN (/\ InputAt(p).type = "material"
                    /\ Cardinality(Declared(id)) > 1
                    /\ NameOnce(p))
                   => Held(p) = MaterialValue(IF before = {}
                                              THEN Last(Declared(id))
                                              ELSE Last(before))

\* C20: when LoadMaterials has returned, every texture input holds the asset
\* the image store returned for the resource its own Input element names,
\* also when that resource name is the name of an earlier input.
C20_TextureOfOwnResource ==
    lpc = "done" =>
        \A p \in InputRecords :
            (InputAt(p).type = "texture" /\ NameOnce(p))
            => /\ Held(p).type = "texture"
               /\ Held(p).tex_value \in 1..Len(imageLoads)
               /\ imageLoads[Held(p).tex_value] = InputAt(p).sval

----------------------------------------------------------------------------
(* Further claims about the collector *)

\* C17: in the traversal for one shape only the first pop of a material
\* enumerates and pushes its dependencies: a pop of a material that was
\* popped before (it is in the set already) pushes nothing, so the stack
\* gets shorter by one.
C17_ExpandedOnce ==
    [][(/\ cpc = "drain"
        /\ material_stack # <<>>
        /\ material_stack[Len(material_stack)] \in mats
        /\ material_stack' # material_stack)
       => Len(material_stack') = Len(material_stack) - 1]_vars

----------------------------------------------------------------------------
(* MaterialIo::SaveMaterialsFromScene: the collector, then SaveMaterials on
   the collected set *)

\* the values the inputs of the scene's materials hold; "albedo", and "ior"
\* of the first material, may hold another material
SceneInputs(m) ==
    [albedo : {FloatValue(<<1, 2, 3, 0>>)} \cup {MaterialValue(k) : k \in Mats},
     normal : {NoTexture},
     bump : {NoTexture},
     ior : {FloatValue(<<1, 2, 3, 0>>)}
            \cup (IF m = 1 THEN {MaterialValue(2)} ELSE {}),
     fresnel : {FloatValue(<<1, 2, 3, 0>>)},
     roughness : {TextureValue(8192)}]

\* Material::CreateMaterialIterator: the materials held by the inputs
DepsOf(inputs) ==
    {inputs[n].mat_value : n \in {n \in DOMAIN inputs : inputs[n].type = "material"}}

\* the material object m as WriteMaterial sees it
SceneMaterial(m) ==
    [obj |-> m, kind |-> "UberV2Material", name |-> matName[m], thin |-> FALSE,
     bxdf |-> "kLambert", inputs |-> matInputs[m]]

\* the std::set<SceneObject::Ptr> of the Collector is ordered by address
AddrLess(a, b) == a.hi < b.hi \/ (a.hi = b.hi /\ a.lo < b.lo)

FirstByAddress(S) ==
    CHOOSE m \in S : \A k \in S : k = m \/ AddrLess(MatAddr[m], MatAddr[k])

\* the collected materials SaveMaterials has not yet written
Unwritten == collected \ {wnodes[i].obj : i \in 1..Len(wnodes)}

\* SaveMaterials(filename, *mat_iter) is called on the Collector's iterator.
SaveCollectedBegin ==
    /\ cpc = "collected"
    /\ wpc = "idle"
    /\ SaveMaterialsBegin

\* the loop of SaveMaterials on the next material of the iterator
SaveCollectedMaterial ==
    /\ cpc = "collected"
    /\ Unwritten # {}
    /\ WriteMaterial(SceneMaterial(FirstByAddress(Unwritten)))

\* the iterator is exhausted
SaveCollectedEnd ==
    /\ cpc = "collected"
    /\ Unwritten = {}
    /\ SaveMaterialsEnd

InitSceneSave ==
    /\ matInputs \in {f \in [Mats -> UNION {SceneInputs(m) : m \in Mats}] :
                        \A m \in Mats : f[m] \in SceneInputs(m)}
    /\ deps = [m \in Mats |-> DepsOf(matInputs[m])]
    /\ matName = [m \in Mats |-> "m"]
    /\ shapeMat \in [1..Len(ShapeSeq) -> Mats \cup {NoMat}]
    /\ cpc = "next"
    /\ shapeIdx = 1
    /\ material_stack = <<>>
    /\ mats = {}
    /\ collected = {}
    /\ LoadIdle
    /\ SaveIdle
    /\ MapIdle
    /\ ReplaceIdle
    /\ IdentityIdle
    /\ IoIdle

NextSceneSave ==
    \/ CollectItem
    \/ DrainStep
    \/ ReturnMats
    \/ SaveCollectedBegin
    \/ SaveCollectedMaterial
    \/ SaveCollectedEnd

SpecSceneSave == InitSceneSave /\ [][NextSceneSave]_vars

\* C19: in the document SaveMaterialsFromScene has written, every Input
\* element of type material carries the id attribute of a Material element
\* of the same document, the one written for the material the input holds.
C19_ReferencesDeclared ==
    wpc = "done" =>
        \A p \in WrittenInputs :
            WrittenAt(p).type = "material" =>
                \E i \in 1..Len(wdoc) :
                    /\ wnodes[i].obj = SourceOf(p).mat_value
                    /\ wdoc[i].id = WrittenAt(p).ival

\* a material no shape refers to is referenced by an input of an element
\* written before its own: a forward reference in the document
C19_Witness ==
    /\ wpc = "done"
    /\ \E p \in WrittenInputs :
            /\ WrittenAt(p).type = "material"
            /\ SourceOf(p).mat_value \notin ShapeMaterials
            /\ \E i \in 1..Len(wdoc) :
                    /\ i > p[1]
                    /\ wnodes[i].obj = SourceOf(p).mat_value

====
